---- MODULE Spec2Model ----
(***************************************************************************)
(* A model of draft-content-suggestions: the draft content client          *)
(* (draft/draft_content.go), the shared helpers (package commons), the    *)
(* request pipeline and health aggregation wired in main.go, and the      *)
(* process start-up / shut-down in main.go.                                *)
(*                                                                         *)
(* Strings are sequences of one-character strings, so that HasPrefix,     *)
(* HasSuffix, concatenation and URL parsing are computed, not assumed.    *)
(* A Go error is a string, "nil" for the nil error.  A []byte is a record *)
(* [isNil, bytes], so that nil and the empty slice differ.                *)
(***************************************************************************)
EXTENDS Integers, Sequences, FiniteSets, TLC

VARIABLES
    \* ---- draft content client (draft/draft_content.go)
    contentAPI,     \* the value NewContentAPI returned: NilClient or a draftContentAPI
    newErr,         \* the error NewContentAPI returned
    newArg,         \* the endpoint argument NewContentAPI was called with
    lastCall,       \* the last FetchDraftContent / IsGTG call: inputs, upstream answer,
                    \* results, and the log entries the call emitted
    \* ---- WriteJSONMessage and the http.ResponseWriter it writes to
    rw,             \* the ResponseWriter: handler header map, committed header, status, body
    wjm,            \* the arguments of the WriteJSONMessage call and its return value
    \* ---- one inbound request through the request handler
    req,            \* the inbound request: identifier, whether its context is cancelled
    hpc,            \* the handler's position
    hctx,           \* the context the handler hands to the upstream calls
    upCalls,        \* the upstream calls made for this request, in order
    fetched,        \* what FetchDraftContent returned to the handler
    upResp,         \* what each upstream answered to this request's call
    outcome,        \* the terminal outcome of the request
    outcomes,       \* how many terminal outcomes were produced for the request
    \* ---- health aggregation
    probe,          \* per dependency: the IsGTG result of the current poll
    verdict,        \* the aggregate verdict of the last finished poll
    ppc,            \* the poll's position
    \* ---- process start-up and shut-down (main.go)
    mainPc,         \* the main goroutine (the app action)
    servePc,        \* the serveEndpoints goroutine
    listenPc,       \* the goroutine running server.ListenAndServe
    notified,       \* the channels registered with signal.Notify
    sigQueue,       \* signals caught by the runtime, not yet handed to the channels
    delivering,     \* channels the signal in delivery has still to be offered to
    sigSent,        \* number of signals the environment has sent
    serverClosed,   \* server.Close has been called
    wgCount,        \* the WaitGroup counter
    exited          \* the process is gone: "no", "returned" (main returned), "killed"

clientVars == <<contentAPI, newErr, newArg, lastCall>>
writerVars == <<rw, wjm>>
handlerVars == <<req, hpc, hctx, upCalls, fetched, upResp, outcome, outcomes>>
healthVars == <<probe, verdict, ppc>>
shutdownVars == <<mainPc, servePc, listenPc, notified, sigQueue, delivering,
                  sigSent, serverClosed, wgCount, exited>>
vars == <<clientVars, writerVars, handlerVars, healthVars, shutdownVars>>

----------------------------------------------------------------------------
(* Bounds of the model.                                                    *)

\* longest tail appended to a scheme prefix to form an endpoint argument
MaxTail == 2
\* longest upstream response body
MaxBody == 2
\* longest message handed to WriteJSONMessage
MaxMsg == 2
\* number of SIGINT / SIGTERM signals the environment sends
MaxSignals == 2

----------------------------------------------------------------------------
(* Strings.                                                                *)

Nil == "nil"

HasPrefix(s, p) == Len(s) >= Len(p) /\ SubSeq(s, 1, Len(p)) = p
HasSuffix(s, p) == Len(s) >= Len(p) /\ SubSeq(s, Len(s) - Len(p) + 1, Len(s)) = p

\* all sequences over S of length at most n
RECURSIVE SeqsUpTo(_, _)
SeqsUpTo(S, n) ==
    IF n = 0 THEN {<<>>}
    ELSE LET shorter == SeqsUpTo(S, n - 1)
         IN shorter \cup {Append(s, c) : s \in {t \in shorter : Len(t) = n - 1}, c \in S}

HttpPrefix == <<"h", "t", "t", "p", ":", "/", "/">>
HttpsPrefix == <<"h", "t", "t", "p", "s", ":", "/", "/">>

Letters == {"a", "f", "h", "p", "s", "t", "g"}
Digits == {"8"}

\* index of the first occurrence of c in s at or after i, 0 when there is none
RECURSIVE IndexFrom(_, _, _)
IndexFrom(s, c, i) ==
    IF i > Len(s) THEN 0
    ELSE IF s[i] = c THEN i
    ELSE IndexFrom(s, c, i + 1)

\* index of the last occurrence of c in s, 0 when there is none
RECURSIVE LastIndexFrom(_, _, _)
LastIndexFrom(s, c, i) ==
    IF i < 1 THEN 0
    ELSE IF s[i] = c THEN i
    ELSE LastIndexFrom(s, c, i - 1)

----------------------------------------------------------------------------
(* net/url, as far as the endpoint strings of the model exercise it: the   *)
(* strings hold letters, a digit, ':', '/' and ' ', and none of '?', '#',  *)
(* '%', '@', '[', so the query, fragment, escape, userinfo and IPv6        *)
(* branches of the parser are never entered.                               *)

UpperLetters == {"H"}

ToLowerChar(c) == IF c = "H" THEN "h" ELSE c
ToLower(s) == [i \in 1..Len(s) |-> ToLowerChar(s[i])]

\* url.getScheme: the scheme before the first ':', when only scheme
\* characters precede it
RECURSIVE getSchemeAt(_, _)
getSchemeAt(rawURL, i) ==
    IF i > Len(rawURL) THEN [scheme |-> <<>>, rest |-> rawURL, err |-> Nil]
    ELSE LET c == rawURL[i]
         IN IF c \in Letters \cup UpperLetters THEN getSchemeAt(rawURL, i + 1)
            ELSE IF c \in Digits
                 THEN IF i = 1 THEN [scheme |-> <<>>, rest |-> rawURL, err |-> Nil]
                      ELSE getSchemeAt(rawURL, i + 1)
            ELSE IF c = ":"
                 THEN IF i = 1
                      THEN [scheme |-> <<>>, rest |-> <<>>, err |-> "missing protocol scheme"]
                      ELSE [scheme |-> SubSeq(rawURL, 1, i - 1),
                            rest |-> SubSeq(rawURL, i + 1, Len(rawURL)),
                            err |-> Nil]
            ELSE [scheme |-> <<>>, rest |-> rawURL, err |-> Nil]

getScheme(rawURL) == getSchemeAt(rawURL, 1)

\* url.validOptionalPort: "" or ":" followed by digits only
validOptionalPort(port) ==
    \/ port = <<>>
    \/ /\ port[1] = ":"
       /\ \A i \in 2..Len(port) : port[i] \in Digits

\* url.parseHost (no '[' in the model's strings): the port after the last
\* ':' is checked, then every character must be allowed in a host
parseHostErr(host) ==
    LET i == LastIndexFrom(host, ":", Len(host))
    IN IF i # 0 /\ ~validOptionalPort(SubSeq(host, i, Len(host)))
       THEN "invalid port after host"
       ELSE IF \E k \in 1..Len(host) : host[k] = " "
            THEN "invalid character in host name"
            ELSE Nil

\* url.parse(rawURL, viaRequest): the error, and the scheme and host of the URL
parse(rawURL, viaRequest) ==
    LET NoURL(e) == [err |-> e, scheme |-> <<>>, host |-> <<>>]
        gs == getScheme(rawURL)
        scheme == ToLower(gs.scheme)
        rest == gs.rest
    IN IF rawURL = <<>> /\ viaRequest THEN NoURL("empty url")
       ELSE IF gs.err # Nil THEN NoURL(gs.err)
       ELSE IF ~HasPrefix(rest, <<"/">>) /\ scheme # <<>>
            THEN [err |-> Nil, scheme |-> scheme, host |-> <<>>]      \* opaque
       ELSE IF ~HasPrefix(rest, <<"/">>) /\ viaRequest
            THEN NoURL("invalid URI for request")
       ELSE IF /\ ~HasPrefix(rest, <<"/">>)
               /\ LET slash == IndexFrom(rest, "/", 1)
                      segment == IF slash = 0 THEN rest ELSE SubSeq(rest, 1, slash - 1)
                  IN IndexFrom(segment, ":", 1) # 0
            THEN NoURL("first path segment in URL cannot contain colon")
       ELSE IF /\ (scheme # <<>> \/ (~viaRequest /\ ~HasPrefix(rest, <<"/", "/", "/">>)))
               /\ HasPrefix(rest, <<"/", "/">>)
            THEN LET after == SubSeq(rest, 3, Len(rest))
                     slash == IndexFrom(after, "/", 1)
                     authority == IF slash = 0 THEN after ELSE SubSeq(after, 1, slash - 1)
                     herr == parseHostErr(authority)
                 IN IF herr # Nil THEN NoURL(herr)
                    ELSE [err |-> Nil, scheme |-> scheme, host |-> authority]
       ELSE [err |-> Nil, scheme |-> scheme, host |-> <<>>]

\* url.ParseRequestURI
ParseRequestURI(rawURL) == parse(rawURL, TRUE)

\* url.Parse, as http.NewRequest uses it
Parse(rawURL) == parse(rawURL, FALSE)

----------------------------------------------------------------------------
(* Values of the draft content client.                                     *)

StatusOK == 200
StatusNotFound == 404

NilBytes == [isNil |-> TRUE, bytes |-> <<>>]
Bytes(b) == [isNil |-> FALSE, bytes |-> b]

ByteVals == {0, 255}
Bodies == SeqsUpTo(ByteVals, MaxBody)
Statuses == {200, 204, 301, 404, 422, 500, 503}

\* what httpClient.Do can hand back: a response, or a transport error
NoResponse == [kind |-> "none", err |-> Nil, status |-> 0, body |-> <<>>, readErr |-> FALSE]
TransportError(e) == [kind |-> "error", err |-> e, status |-> 0, body |-> <<>>, readErr |-> FALSE]
Responses ==
    {[kind |-> "response", err |-> Nil, status |-> st, body |-> b, readErr |-> re] :
        st \in Statuses, b \in Bodies, re \in BOOLEAN}

\* http.Client.Do on a request for the parsed URL u: a done context, an
\* unsupported scheme or a missing host fail before anything is sent;
\* otherwise the upstream answers, or the transport fails
DoOutcomes(ctxDone, u) ==
    IF ctxDone THEN {TransportError("context canceled")}
    ELSE IF u.scheme \notin {<<"h", "t", "t", "p">>, <<"h", "t", "t", "p", "s">>}
         THEN {TransportError("unsupported protocol scheme")}
    ELSE IF u.host = <<>> THEN {TransportError("no Host in request URL")}
    ELSE Responses \cup {TransportError("connection refused")}

NilClient == [isNil |-> TRUE, endpoint |-> <<>>, healthEndpoint |-> <<>>]

\* endpoint arguments: a scheme prefix (or none, or a wrong one) and a tail
TailChars == {"a", "/", ":", " ", "8"}
Prefixes == {<<>>, HttpPrefix, HttpsPrefix,
             <<"H", "t", "t", "p", ":", "/", "/">>,
             <<"f", "t", "p", ":", "/", "/">>}
Endpoints == {p \o t : p \in Prefixes, t \in SeqsUpTo(TailChars, MaxTail)}
HealthEndpoints == {HttpPrefix \o <<"a", "/", "g">>, <<":">>, <<"g">>}
UUIDs == {<<"a">>, <<" ">>}

----------------------------------------------------------------------------
(* commons.ValidateEndpoint and the draft content client.                  *)

\* ValidateEndpoint without the url.ParseRequestURI check
ValidateEndpoint_PrefixOnly(endpoint) ==
    IF ~HasPrefix(endpoint, HttpPrefix) /\ ~HasPrefix(endpoint, HttpsPrefix)
    THEN "Missing scheme in endpoint"
    ELSE Nil

ValidateEndpoint(endpoint) ==
    IF ~HasPrefix(endpoint, HttpPrefix) /\ ~HasPrefix(endpoint, HttpsPrefix)
    THEN "Missing scheme in endpoint"
    ELSE IF ParseRequestURI(endpoint).err # Nil
         THEN "Invalid endpoint configuration"
         ELSE Nil

IsValid(d) == ValidateEndpoint(d.endpoint)

\* what NewContentAPI returns: (contentAPI, err)
NewContentAPIResult(endpoint, healthEndpoint) ==
    LET e == IF ~HasSuffix(endpoint, <<"/">>) THEN endpoint \o <<"/">> ELSE endpoint
        d == [isNil |-> FALSE, endpoint |-> e, healthEndpoint |-> healthEndpoint]
        err == IsValid(d)
    IN IF err # Nil THEN [api |-> NilClient, err |-> err]
       ELSE [api |-> d, err |-> Nil]

\* http.NewRequest(GET, url, nil): fails when the URL does not parse
NewRequestErr(rawURL) == Parse(rawURL).err

\* FetchDraftContent without the StatusNotFound branch
FetchDraftContentResult_No404(d, uuid, resp) ==
    LET requestPath == d.endpoint \o uuid
    IN IF NewRequestErr(requestPath) # Nil
       THEN [content |-> NilBytes, err |-> NewRequestErr(requestPath)]
       ELSE IF resp.kind = "error" THEN [content |-> NilBytes, err |-> resp.err]
       ELSE IF resp.readErr THEN [content |-> NilBytes, err |-> "read error"]
       ELSE [content |-> Bytes(resp.body), err |-> Nil]

\* FetchDraftContent returning the body only of a 200 response
FetchDraftContentResult_Only200(d, uuid, resp) ==
    LET requestPath == d.endpoint \o uuid
    IN IF NewRequestErr(requestPath) # Nil
       THEN [content |-> NilBytes, err |-> NewRequestErr(requestPath)]
       ELSE IF resp.kind = "error" THEN [content |-> NilBytes, err |-> resp.err]
       ELSE IF resp.status = StatusNotFound THEN [content |-> NilBytes, err |-> Nil]
       ELSE IF resp.status # StatusOK THEN [content |-> NilBytes, err |-> Nil]
       ELSE IF resp.readErr THEN [content |-> NilBytes, err |-> "read error"]
       ELSE [content |-> Bytes(resp.body), err |-> Nil]

\* FetchDraftContent dropping the error httpClient.Do returned
FetchDraftContentResult_DropDoErr(d, uuid, resp) ==
    LET requestPath == d.endpoint \o uuid
    IN IF NewRequestErr(requestPath) # Nil
       THEN [content |-> NilBytes, err |-> NewRequestErr(requestPath)]
       ELSE IF resp.kind = "error" THEN [content |-> NilBytes, err |-> Nil]
       ELSE IF resp.status = StatusNotFound THEN [content |-> NilBytes, err |-> Nil]
       ELSE IF resp.readErr THEN [content |-> NilBytes, err |-> "read error"]
       ELSE [content |-> Bytes(resp.body), err |-> Nil]

\* what FetchDraftContent returns once httpClient.Do has returned resp
\* (resp is NoResponse when the request could not be built)
FetchDraftContentResult(d, uuid, resp) ==
    LET requestPath == d.endpoint \o uuid
    IN IF NewRequestErr(requestPath) # Nil
       THEN [content |-> NilBytes, err |-> NewRequestErr(requestPath)]
       ELSE IF resp.kind = "error" THEN [content |-> NilBytes, err |-> resp.err]
       ELSE IF resp.status = StatusNotFound THEN [content |-> NilBytes, err |-> Nil]
       ELSE IF resp.readErr THEN [content |-> NilBytes, err |-> "read error"]
       ELSE [content |-> Bytes(resp.body), err |-> Nil]

\* what IsGTG returns once httpClient.Do has returned resp, and the log
\* entries it emits (the code logs nothing)
IsGTGResult(d, resp) ==
    IF NewRequestErr(d.healthEndpoint) # Nil
    THEN [msg |-> "", err |-> NewRequestErr(d.healthEndpoint), entries |-> <<>>]
    ELSE IF resp.kind = "error" THEN [msg |-> "", err |-> resp.err, entries |-> <<>>]
    ELSE IF resp.status # StatusOK
         THEN [msg |-> "", err |-> "draft-content-api endpoint is unhealthy", entries |-> <<>>]
         ELSE [msg |-> "draft-content-api is healthy", err |-> Nil, entries |-> <<>>]

\* the upstream answers Do can return for a request to rawURL; none when the
\* request cannot be built
AnswersFor(ctxDone, rawURL) ==
    IF NewRequestErr(rawURL) # Nil THEN {NoResponse}
    ELSE DoOutcomes(ctxDone, Parse(rawURL))

NoCall == [op |-> "none", uuid |-> <<>>, ctxDone |-> FALSE, resp |-> NoResponse,
           content |-> NilBytes, err |-> Nil, msg |-> "", entries |-> <<>>]

InitClient ==
    /\ contentAPI = NilClient
    /\ newErr = Nil
    /\ newArg = [called |-> FALSE, endpoint |-> <<>>]
    /\ lastCall = NoCall

NewContentAPI ==
    /\ ~newArg.called
    /\ \E endpoint \in Endpoints, healthEndpoint \in HealthEndpoints :
          LET r == NewContentAPIResult(endpoint, healthEndpoint)
          IN /\ contentAPI' = r.api
             /\ newErr' = r.err
             /\ newArg' = [called |-> TRUE, endpoint |-> endpoint]
    /\ UNCHANGED lastCall
    /\ UNCHANGED <<writerVars, handlerVars, healthVars, shutdownVars>>

FetchDraftContent ==
    /\ ~contentAPI.isNil
    /\ lastCall.op = "none"
    /\ \E uuid \in UUIDs, ctxDone \in BOOLEAN :
          \E resp \in AnswersFor(ctxDone, contentAPI.endpoint \o uuid) :
             LET r == FetchDraftContentResult(contentAPI, uuid, resp)
             IN lastCall' = [op |-> "fetch", uuid |-> uuid, ctxDone |-> ctxDone,
                             resp |-> resp, content |-> r.content, err |-> r.err,
                             msg |-> "", entries |-> <<>>]
    /\ UNCHANGED <<contentAPI, newErr, newArg>>
    /\ UNCHANGED <<writerVars, handlerVars, healthVars, shutdownVars>>

IsGTG ==
    /\ ~contentAPI.isNil
    /\ lastCall.op = "none"
    /\ \E ctxDone \in BOOLEAN :
          \E resp \in AnswersFor(ctxDone, contentAPI.healthEndpoint) :
             LET r == IsGTGResult(contentAPI, resp)
             IN lastCall' = [op |-> "gtg", uuid |-> <<>>, ctxDone |-> ctxDone,
                             resp |-> resp, content |-> NilBytes, err |-> r.err,
                             msg |-> r.msg, entries |-> r.entries]
    /\ UNCHANGED <<contentAPI, newErr, newArg>>
    /\ UNCHANGED <<writerVars, handlerVars, healthVars, shutdownVars>>

\* the caller has taken the results of the call; the client keeps nothing
\* of a call, so the next call starts from the same client
CallerDone ==
    /\ lastCall.op # "none"
    /\ lastCall' = NoCall
    /\ UNCHANGED <<contentAPI, newErr, newArg>>
    /\ UNCHANGED <<writerVars, handlerVars, healthVars, shutdownVars>>

NextClient == NewContentAPI \/ FetchDraftContent \/ IsGTG \/ CallerDone

----------------------------------------------------------------------------
(* commons.WriteJSONMessage and the http.ResponseWriter contract it relies *)
(* on: Header() is the handler's header map; WriteHeader commits the       *)
(* status and the header map as it is at that moment; later changes of     *)
(* the map are not sent; Write commits with 200 when nothing was           *)
(* committed, and sniffs a Content-Type when the committed header has none.*)

ContentType == "Content-Type"

FreshWriter == [handlerHeader |-> [k \in {ContentType} |-> <<>>],
                wroteHeader |-> FALSE,
                status |-> 0,
                sentHeader |-> [k \in {ContentType} |-> <<>>],
                body |-> <<>>]

\* w.WriteHeader(status)
WriteHeader(w, status) ==
    IF w.wroteHeader THEN w
    ELSE [w EXCEPT !.wroteHeader = TRUE, !.status = status,
                   !.sentHeader = w.handlerHeader]

\* w.Header().Add(key, value)
HeaderAdd(w, key, value) ==
    [w EXCEPT !.handlerHeader[key] = Append(@, value)]

\* http.DetectContentType of a JSON text
DetectContentType(data) == "text/plain; charset=utf-8"

\* w.Write(data); connOK is whether the connection still takes the bytes
Write(w, data, connOK) ==
    LET c == WriteHeader(w, StatusOK)
        h == IF c.sentHeader[ContentType] = <<>>
             THEN [c EXCEPT !.sentHeader[ContentType] = <<DetectContentType(data)>>]
             ELSE c
    IN IF connOK THEN [h EXCEPT !.body = @ \o data] ELSE h

\* encoding/json of a string: '"' and '\' are escaped with a backslash, '<'
\* as the six characters backslash, u, 0, 0, 3, c
JSONEscapeChar(c) ==
    IF c = "\"" THEN <<"\\", "\"">>
    ELSE IF c = "\\" THEN <<"\\", "\\">>
    ELSE IF c = "<" THEN <<"\\", "u", "0", "0", "3", "c">>
    ELSE <<c>>

RECURSIVE JSONEscape(_)
JSONEscape(str) ==
    IF str = <<>> THEN <<>>
    ELSE JSONEscapeChar(Head(str)) \o JSONEscape(Tail(str))

\* json.NewEncoder(w).Encode(&message{Message: msg}): {"message":"..."} and a newline
EncodeMessage(msg) ==
    <<"{", "\"", "m", "e", "s", "s", "a", "g", "e", "\"", ":", "\"">>
        \o JSONEscape(msg) \o <<"\"", "}", "\n">>

\* WriteJSONMessage(w, status, msg): the writer afterwards and the error returned
WriteJSONMessageResult(w, status, msg, connOK) ==
    LET w1 == WriteHeader(w, status)
        w2 == HeaderAdd(w1, ContentType, "application/json")
        w3 == Write(w2, EncodeMessage(msg), connOK)
    IN [w |-> w3, err |-> IF connOK THEN Nil ELSE "write: broken pipe"]

MsgChars == {"a", "\"", "<"}
Messages == SeqsUpTo(MsgChars, MaxMsg)
MessageStatuses == {200, 400, 404, 422, 500, 503}

InitWriter ==
    /\ rw = FreshWriter
    /\ wjm = [called |-> FALSE, status |-> 0, msg |-> <<>>, err |-> Nil]

\* a handler answers its request with WriteJSONMessage
WriteJSONMessage ==
    /\ ~wjm.called
    /\ \E status \in MessageStatuses, msg \in Messages, connOK \in BOOLEAN :
          LET r == WriteJSONMessageResult(rw, status, msg, connOK)
          IN /\ rw' = r.w
             /\ wjm' = [called |-> TRUE, status |-> status, msg |-> msg, err |-> r.err]
    /\ UNCHANGED <<clientVars, handlerVars, healthVars, shutdownVars>>

\* the server hands the next request's handler a fresh ResponseWriter
NextResponse ==
    /\ wjm.called
    /\ rw' = FreshWriter
    /\ wjm' = [called |-> FALSE, status |-> 0, msg |-> <<>>, err |-> Nil]
    /\ UNCHANGED <<clientVars, handlerVars, healthVars, shutdownVars>>

NextWriter == WriteJSONMessage \/ NextResponse

----------------------------------------------------------------------------
(* The clients main.go constructs from its default option values.          *)

\* "http://draft-content-public-read:8080/content", in the model's alphabet
DraftContentEndpoint == HttpPrefix \o <<"a", ":", "8", "/", "a">>
DraftContentGtgEndpoint == HttpPrefix \o <<"a", ":", "8", "/", "g">>
\* "http://test.api.ft.com/content/suggest"
SuggestionsEndpoint == HttpPrefix \o <<"t", "/", "s">>
SuggestionsGtgEndpoint == HttpPrefix \o <<"t", "/", "s", "/", "g">>

ConfiguredContentAPI == NewContentAPIResult(DraftContentEndpoint, DraftContentGtgEndpoint)

----------------------------------------------------------------------------
(* commons.ValidateUUID and commons.NewContextFromRequest.                 *)

HexChars == {"0", "1", "2", "3", "4", "5", "6", "7", "8", "9",
             "a", "b", "c", "d", "e", "f", "A", "B", "C", "D", "E", "F"}

\* uuid.FromString for the lengths the model's identifiers have: 36
\* (canonical, dashes at 9, 14, 19, 24), 32 (hex only), anything else is
\* an incorrect length
ValidateUUID(u) ==
    IF Len(u) = 36
    THEN IF \A i \in 1..36 : IF i \in {9, 14, 19, 24} THEN u[i] = "-" ELSE u[i] \in HexChars
         THEN Nil
         ELSE "uuid: incorrect UUID format"
    ELSE IF Len(u) = 32
         THEN IF \A i \in 1..32 : u[i] \in HexChars THEN Nil ELSE "uuid: invalid hex"
         ELSE "uuid: incorrect UUID length"

Canonical(c) == [i \in 1..36 |-> IF i \in {9, 14, 19, 24} THEN "-" ELSE c]
IDs == {Canonical("a"), Canonical("g"), [i \in 1..32 |-> "8"], [i \in 1..36 |-> "a"],
        <<"a", "8">>}
TransactionIDs == {"", "tid_1"}

\* tidutils.GetTransactionIDFromRequest: the request's id, or a new one
GetTransactionIDFromRequest(r) == IF r.tid = "" THEN "tid_new" ELSE r.tid

\* NewContextFromRequest: a context whose parent is context.Background()
NewContextFromRequest(r) ==
    [parent |-> "background", trxId |-> GetTransactionIDFromRequest(r)]

\* ctx.Done() is closed: the background context is never done, a context
\* derived from the request's is done once the request is cancelled
CtxDone(ctx, r) == IF ctx.parent = "request" THEN r.cancelled ELSE FALSE

NoCtx == [parent |-> "none", trxId |-> ""]

----------------------------------------------------------------------------
(* The suggestions client and the request handler.                         *)

ErrDraftNotMappable == "draft content is invalid for mapping status=422"

\* FetchSuggestions once the upstream has answered resp
FetchSuggestionsResult(resp) ==
    IF resp.kind = "error" THEN [content |-> NilBytes, err |-> resp.err]
    ELSE IF resp.status = 422 THEN [content |-> NilBytes, err |-> ErrDraftNotMappable]
    ELSE IF resp.status \notin 200..299
         THEN [content |-> NilBytes, err |-> "error in draft content retrieval status"]
    ELSE IF resp.readErr THEN [content |-> NilBytes, err |-> "read error"]
    ELSE [content |-> Bytes(resp.body), err |-> Nil]

\* the handler's decision on what FetchDraftContent returned: a terminal
\* outcome, or "none" to go on to the suggestions upstream
AfterDraft(r) ==
    IF r.err # Nil THEN "upstream_unavailable"
    ELSE IF r.content.isNil THEN "not_found"
    ELSE "none"

\* the handler's terminal outcome on what FetchSuggestions returned
AfterSuggestions(r) ==
    IF r.err = ErrDraftNotMappable THEN "unprocessable"
    ELSE IF r.err # Nil THEN "upstream_unavailable"
    ELSE "ok"

NoFetch == [content |-> NilBytes, err |-> Nil]
NoAnswers == [draft |-> NoResponse, suggestions |-> NoResponse]

InitHandler ==
    /\ req = [id |-> <<>>, tid |-> "", cancelled |-> FALSE]
    /\ hpc = "idle"
    /\ hctx = NoCtx
    /\ upCalls = <<>>
    /\ fetched = NoFetch
    /\ upResp = NoAnswers
    /\ outcome = "none"
    /\ outcomes = 0

\* the router hands the handler GET /drafts/content/{uuid}/suggestions: the
\* identifier is validated, and a valid one starts the draft content call
Receive ==
    /\ hpc \in {"idle", "done"}
    /\ \E id \in IDs, tid \in TransactionIDs :
          LET r == [id |-> id, tid |-> tid, cancelled |-> FALSE]
          IN /\ req' = r
             /\ IF ValidateUUID(id) # Nil
                THEN /\ hpc' = "done"
                     /\ hctx' = NoCtx
                     /\ upCalls' = <<>>
                     /\ outcome' = "bad_request"
                     /\ outcomes' = 1
                ELSE /\ hpc' = "fetching"
                     /\ hctx' = NewContextFromRequest(r)
                     /\ upCalls' = <<"draft">>
                     /\ outcome' = "none"
                     /\ outcomes' = 0
    /\ fetched' = NoFetch
    /\ upResp' = NoAnswers
    /\ UNCHANGED <<clientVars, writerVars, healthVars, shutdownVars>>

\* the caller goes away while an upstream call is outstanding
CancelInbound ==
    /\ hpc \in {"fetching", "suggesting"}
    /\ ~req.cancelled
    /\ req' = [req EXCEPT !.cancelled = TRUE]
    /\ UNCHANGED <<hpc, hctx, upCalls, fetched, upResp, outcome, outcomes>>
    /\ UNCHANGED <<clientVars, writerVars, healthVars, shutdownVars>>

\* FetchDraftContent returns to the handler
DraftReturns ==
    /\ hpc = "fetching"
    /\ \E resp \in AnswersFor(CtxDone(hctx, req), ConfiguredContentAPI.api.endpoint \o req.id) :
          LET r == FetchDraftContentResult(ConfiguredContentAPI.api, req.id, resp)
          IN /\ upResp' = [upResp EXCEPT !.draft = resp]
             /\ fetched' = r
             /\ IF AfterDraft(r) # "none"
                THEN /\ hpc' = "done"
                     /\ outcome' = AfterDraft(r)
                     /\ outcomes' = outcomes + 1
                     /\ UNCHANGED upCalls
                ELSE /\ hpc' = "suggesting"
                     /\ upCalls' = Append(upCalls, "suggestions")
                     /\ UNCHANGED <<outcome, outcomes>>
    /\ UNCHANGED <<req, hctx>>
    /\ UNCHANGED <<clientVars, writerVars, healthVars, shutdownVars>>

\* FetchSuggestions returns to the handler
SuggestionsReturn ==
    /\ hpc = "suggesting"
    /\ \E resp \in AnswersFor(CtxDone(hctx, req), SuggestionsEndpoint) :
          LET r == FetchSuggestionsResult(resp)
          IN /\ upResp' = [upResp EXCEPT !.suggestions = resp]
             /\ outcome' = AfterSuggestions(r)
             /\ outcomes' = outcomes + 1
             /\ hpc' = "done"
    /\ UNCHANGED <<req, hctx, upCalls, fetched>>
    /\ UNCHANGED <<clientVars, writerVars, healthVars, shutdownVars>>

NextHandler == Receive \/ CancelInbound \/ DraftReturns \/ SuggestionsReturn

----------------------------------------------------------------------------
(* Health aggregation over the two registered dependencies.                *)

Deps == {"draft", "suggestions"}

NoProbe == [state |-> "idle", err |-> Nil, status |-> 0]

\* IsGTG of the suggestions client once the health URL has answered resp
SuggestionsIsGTGResult(resp) ==
    IF resp.kind = "error" THEN [msg |-> "", err |-> resp.err]
    ELSE IF resp.status # StatusOK
         THEN [msg |-> "", err |-> "suggestions endpoint is unhealthy"]
         ELSE [msg |-> "suggestions is healthy", err |-> Nil]

\* the error of dependency d's IsGTG on the answer resp
ProbeErr(d, resp) ==
    IF d = "draft" THEN IsGTGResult(ConfiguredContentAPI.api, resp).err
    ELSE SuggestionsIsGTGResult(resp).err

GtgEndpointOf(d) ==
    IF d = "draft" THEN ConfiguredContentAPI.api.healthEndpoint ELSE SuggestionsGtgEndpoint

\* an aggregate that is healthy as soon as one check succeeded
GTGVerdict_Any(p) ==
    IF \E d \in Deps : p[d].err = Nil THEN "healthy" ELSE "unhealthy"

\* the aggregate verdict of a poll: healthy only if every check succeeded
GTGVerdict(p) ==
    IF \A d \in Deps : p[d].err = Nil THEN "healthy" ELSE "unhealthy"

InitHealth ==
    /\ probe = [d \in Deps |-> NoProbe]
    /\ verdict = [now |-> "none", prev |-> "none"]
    /\ ppc = "idle"

\* the health endpoint is polled: every dependency's check is started
StartPoll ==
    /\ ppc \in {"idle", "joined"}
    /\ probe' = [d \in Deps |-> [state |-> "pending", err |-> Nil, status |-> 0]]
    /\ ppc' = "probing"
    /\ UNCHANGED verdict
    /\ UNCHANGED <<clientVars, writerVars, handlerVars, shutdownVars>>

\* one dependency's IsGTG returns
ProbeReturns ==
    /\ ppc = "probing"
    /\ \E d \in Deps :
          /\ probe[d].state = "pending"
          /\ \E resp \in AnswersFor(FALSE, GtgEndpointOf(d)) :
                probe' = [probe EXCEPT ![d] = [state |-> "done",
                                               err |-> ProbeErr(d, resp),
                                               status |-> resp.status]]
    /\ UNCHANGED <<verdict, ppc>>
    /\ UNCHANGED <<clientVars, writerVars, handlerVars, shutdownVars>>

\* one dependency's check does not answer within the poll's timeout
ProbeTimesOut ==
    /\ ppc = "probing"
    /\ \E d \in Deps :
          /\ probe[d].state = "pending"
          /\ probe' = [probe EXCEPT ![d] = [state |-> "done", err |-> "timeout", status |-> 0]]
    /\ UNCHANGED <<verdict, ppc>>
    /\ UNCHANGED <<clientVars, writerVars, handlerVars, shutdownVars>>

\* every check has ended: the verdict of this poll
Join ==
    /\ ppc = "probing"
    /\ \A d \in Deps : probe[d].state = "done"
    /\ verdict' = [now |-> GTGVerdict(probe), prev |-> verdict.now]
    /\ ppc' = "joined"
    /\ UNCHANGED probe
    /\ UNCHANGED <<clientVars, writerVars, handlerVars, shutdownVars>>

NextHealth == StartPoll \/ ProbeReturns \/ ProbeTimesOut \/ Join

----------------------------------------------------------------------------
(* main.go: start-up, the two goroutines waiting for a signal, shut-down.  *)
(* waitForSignal makes an unbuffered channel and registers it; package     *)
(* os/signal offers a caught signal to every registered channel without    *)
(* blocking, so a channel whose goroutine is not yet receiving misses it.  *)
(* With no channel registered, SIGINT and SIGTERM end the process.  When   *)
(* main returns the process exits, whatever the other goroutines do.       *)

Running == exited = "no"

\* the endpoint options main may be started with
ConfiguredEndpoints == {DraftContentEndpoint, <<"a">>}

InitShutdown ==
    /\ mainPc = "construct"
    /\ servePc = "none"
    /\ listenPc = "none"
    /\ notified = {}
    /\ sigQueue = 0
    /\ delivering = {}
    /\ sigSent = 0
    /\ serverClosed = FALSE
    /\ wgCount = 0
    /\ exited = "no"

\* main: the clients are constructed; an error ends main before it serves
MainConstruct ==
    /\ Running /\ mainPc = "construct"
    /\ \E endpoint \in ConfiguredEndpoints :
          IF NewContentAPIResult(endpoint, DraftContentGtgEndpoint).err # Nil
          THEN mainPc' = "returned" /\ exited' = "returned"
          ELSE mainPc' = "action" /\ UNCHANGED exited
    /\ UNCHANGED <<servePc, listenPc, notified, sigQueue, delivering, sigSent,
                   serverClosed, wgCount>>
    /\ UNCHANGED <<clientVars, writerVars, handlerVars, healthVars>>

\* the app action: go serveEndpoints(...)
MainGoServe ==
    /\ Running /\ mainPc = "action"
    /\ mainPc' = "notify"
    /\ servePc' = "setup"
    /\ UNCHANGED <<listenPc, notified, sigQueue, delivering, sigSent, serverClosed,
                   wgCount, exited>>
    /\ UNCHANGED <<clientVars, writerVars, handlerVars, healthVars>>

\* waitForSignal in the app action: signal.Notify(ch, SIGINT, SIGTERM)
MainNotify ==
    /\ Running /\ mainPc = "notify"
    /\ delivering = {}
    /\ notified' = notified \cup {"main"}
    /\ mainPc' = "recv"
    /\ UNCHANGED <<servePc, listenPc, sigQueue, delivering, sigSent, serverClosed,
                   wgCount, exited>>
    /\ UNCHANGED <<clientVars, writerVars, handlerVars, healthVars>>

\* the app action returns, app.Run returns, main returns: the process exits
MainReturn ==
    /\ Running /\ mainPc = "signalled"
    /\ mainPc' = "returned"
    /\ exited' = "returned"
    /\ UNCHANGED <<servePc, listenPc, notified, sigQueue, delivering, sigSent,
                   serverClosed, wgCount>>
    /\ UNCHANGED <<clientVars, writerVars, handlerVars, healthVars>>

\* serveEndpoints: the routes are set up; wg.Add(1); go ListenAndServe
ServeGoListen ==
    /\ Running /\ servePc = "setup"
    /\ wgCount' = wgCount + 1
    /\ listenPc' = "listening"
    /\ servePc' = "notify"
    /\ UNCHANGED <<mainPc, notified, sigQueue, delivering, sigSent, serverClosed, exited>>
    /\ UNCHANGED <<clientVars, writerVars, handlerVars, healthVars>>

\* waitForSignal in serveEndpoints: signal.Notify(ch, SIGINT, SIGTERM)
ServeNotify ==
    /\ Running /\ servePc = "notify"
    /\ delivering = {}
    /\ notified' = notified \cup {"serve"}
    /\ servePc' = "recv"
    /\ UNCHANGED <<mainPc, listenPc, sigQueue, delivering, sigSent, serverClosed,
                   wgCount, exited>>
    /\ UNCHANGED <<clientVars, writerVars, handlerVars, healthVars>>

\* serveEndpoints after its signal: the shutdown is logged, server.Close()
ServeClose ==
    /\ Running /\ servePc = "signalled"
    /\ serverClosed' = TRUE
    /\ servePc' = "wait"
    /\ UNCHANGED <<mainPc, listenPc, notified, sigQueue, delivering, sigSent,
                   wgCount, exited>>
    /\ UNCHANGED <<clientVars, writerVars, handlerVars, healthVars>>

\* wg.Wait() returns once the counter is zero; serveEndpoints returns
ServeWaitDone ==
    /\ Running /\ servePc = "wait"
    /\ wgCount = 0
    /\ servePc' = "done"
    /\ UNCHANGED <<mainPc, listenPc, notified, sigQueue, delivering, sigSent,
                   serverClosed, wgCount, exited>>
    /\ UNCHANGED <<clientVars, writerVars, handlerVars, healthVars>>

\* server.ListenAndServe returns: after Close, or at once when it cannot
\* listen; the error is logged
ListenReturns ==
    /\ Running /\ listenPc = "listening"
    /\ \E cannotListen \in BOOLEAN : serverClosed \/ cannotListen
    /\ listenPc' = "returned"
    /\ UNCHANGED <<mainPc, servePc, notified, sigQueue, delivering, sigSent,
                   serverClosed, wgCount, exited>>
    /\ UNCHANGED <<clientVars, writerVars, handlerVars, healthVars>>

\* wg.Done() in the ListenAndServe goroutine
ListenWgDone ==
    /\ Running /\ listenPc = "returned"
    /\ wgCount' = wgCount - 1
    /\ listenPc' = "done"
    /\ UNCHANGED <<mainPc, servePc, notified, sigQueue, delivering, sigSent,
                   serverClosed, exited>>
    /\ UNCHANGED <<clientVars, writerVars, handlerVars, healthVars>>

\* the environment sends SIGINT or SIGTERM: caught when a channel is
\* registered, fatal otherwise
EnvSignal ==
    /\ Running /\ sigSent < MaxSignals
    /\ sigSent' = sigSent + 1
    /\ IF notified = {}
       THEN exited' = "killed" /\ UNCHANGED sigQueue
       ELSE sigQueue' = sigQueue + 1 /\ UNCHANGED exited
    /\ UNCHANGED <<mainPc, servePc, listenPc, notified, delivering, serverClosed, wgCount>>
    /\ UNCHANGED <<clientVars, writerVars, handlerVars, healthVars>>

\* os/signal takes the next caught signal: it will offer it to every
\* channel registered at this moment
SignalProcess ==
    /\ Running /\ sigQueue > 0 /\ delivering = {}
    /\ sigQueue' = sigQueue - 1
    /\ delivering' = notified
    /\ UNCHANGED <<mainPc, servePc, listenPc, notified, sigSent, serverClosed,
                   wgCount, exited>>
    /\ UNCHANGED <<clientVars, writerVars, handlerVars, healthVars>>

\* the non-blocking send to one channel: its goroutine takes the signal if
\* it is receiving, otherwise the signal is dropped for that channel
SignalOffer ==
    /\ Running
    /\ \E c \in delivering :
          /\ delivering' = delivering \ {c}
          /\ IF c = "main"
             THEN /\ mainPc' = IF mainPc = "recv" THEN "signalled" ELSE mainPc
                  /\ UNCHANGED servePc
             ELSE /\ servePc' = IF servePc = "recv" THEN "signalled" ELSE servePc
                  /\ UNCHANGED mainPc
    /\ UNCHANGED <<listenPc, notified, sigQueue, sigSent, serverClosed, wgCount, exited>>
    /\ UNCHANGED <<clientVars, writerVars, handlerVars, healthVars>>

NextShutdown ==
    \/ MainConstruct \/ MainGoServe \/ MainNotify \/ MainReturn
    \/ ServeGoListen \/ ServeNotify \/ ServeClose \/ ServeWaitDone
    \/ ListenReturns \/ ListenWgDone
    \/ EnvSignal \/ SignalProcess \/ SignalOffer

----------------------------------------------------------------------------
(* Specifications: one per part of the program; the parts share no state. *)

Init == InitClient /\ InitWriter /\ InitHandler /\ InitHealth /\ InitShutdown

SpecClient == Init /\ [][NextClient]_vars
SpecWriter == Init /\ [][NextWriter]_vars
SpecHandler == Init /\ [][NextHandler]_vars
SpecHealth == Init /\ [][NextHealth]_vars
SpecShutdown == Init /\ [][NextShutdown]_vars

Next == NextClient \/ NextWriter \/ NextHandler \/ NextHealth \/ NextShutdown
Spec == Init /\ [][Next]_vars

----------------------------------------------------------------------------
(* The claims.                                                             *)

Answered(op) == lastCall.op = op /\ lastCall.resp.kind = "response"

\* C1: for every content-upstream response whose status is neither 2xx nor
\* 404, FetchDraftContent returns a non-nil error and nil content.
C1_OtherStatusIsError ==
    (Answered("fetch") /\ lastCall.resp.status \notin 200..299
                       /\ lastCall.resp.status # StatusNotFound)
        => (lastCall.err # Nil /\ lastCall.content.isNil)

\* C2: when the content upstream answers 404, FetchDraftContent returns
\* (nil, nil): nil content and nil error.
C2_NotFoundIsNilNil ==
    (Answered("fetch") /\ lastCall.resp.status = StatusNotFound)
        => (lastCall.content = NilBytes /\ lastCall.err = Nil)

C2_Witness ==
    /\ Answered("fetch") /\ lastCall.resp.status = StatusNotFound
    /\ lastCall.resp.body # <<>>
    /\ lastCall.content.isNil /\ lastCall.err = Nil

\* C3: when the content upstream answers 2xx with body B and the body is
\* read without error, FetchDraftContent returns (B, nil), the bytes equal
\* to B, an empty B included (an empty, non-nil slice).
C3_SuccessReturnsBody ==
    (Answered("fetch") /\ lastCall.resp.status \in 200..299 /\ ~lastCall.resp.readErr)
        => (/\ ~lastCall.content.isNil
            /\ lastCall.content.bytes = lastCall.resp.body
            /\ lastCall.err = Nil)

C3_Witness ==
    /\ Answered("fetch") /\ lastCall.resp.status = 204 /\ ~lastCall.resp.readErr
    /\ Len(lastCall.resp.body) = MaxBody
    /\ lastCall.content = Bytes(lastCall.resp.body)

SchemeOK(endpoint) == HasPrefix(endpoint, HttpPrefix) \/ HasPrefix(endpoint, HttpsPrefix)

\* C4: NewContentAPI returns a nil client and a non-nil error whenever the
\* base URL does not start with http:// or https:// or does not parse as a
\* request URI; it returns a client exactly when it returns no error, and
\* then the client's base URL ends with "/", has the scheme and parses; a
\* client that served a call has such a base URL.
C4_InvalidFailsConstruction ==
    /\ newArg.called =>
          /\ (~SchemeOK(newArg.endpoint) \/ ParseRequestURI(newArg.endpoint).err # Nil)
                => (contentAPI.isNil /\ newErr # Nil)
          /\ contentAPI.isNil <=> newErr # Nil
    /\ ~contentAPI.isNil =>
          /\ newArg.called
          /\ HasSuffix(contentAPI.endpoint, <<"/">>)
          /\ SchemeOK(contentAPI.endpoint)
          /\ ParseRequestURI(contentAPI.endpoint).err = Nil
    /\ lastCall.op # "none" => ~contentAPI.isNil

\* an endpoint with the scheme that does not parse is refused
C4_Witness ==
    /\ newArg.called
    /\ SchemeOK(newArg.endpoint)
    /\ ParseRequestURI(newArg.endpoint).err # Nil
    /\ contentAPI.isNil /\ newErr # Nil

\* C5: IsGTG on a 200 answer returns the success message and emits no log
\* entry; on any other status it returns an error and emits exactly one
\* error-level log entry whose fields status and healthEndpoint are the
\* observed status and the configured health URL.
C5_GTGLogsFailure ==
    Answered("gtg") =>
        IF lastCall.resp.status = StatusOK
        THEN lastCall.err = Nil /\ lastCall.msg # "" /\ lastCall.entries = <<>>
        ELSE /\ lastCall.err # Nil
             /\ Len(lastCall.entries) = 1
             /\ lastCall.entries[1].level = "error"
             /\ lastCall.entries[1].status = lastCall.resp.status
             /\ lastCall.entries[1].healthEndpoint = contentAPI.healthEndpoint

\* C6: the context handed to an upstream call is inherited from the inbound
\* request: whenever the inbound request is cancelled while an upstream
\* call is outstanding, the call's context is done, so the call is aborted.
C6_CancelPropagates ==
    (hpc \in {"fetching", "suggesting"} /\ req.cancelled) => CtxDone(hctx, req)

Terminal == {"bad_request", "not_found", "unprocessable", "upstream_unavailable", "ok"}

\* C7: per inbound request each upstream is called at most once, draft
\* content before suggestions; suggestions is not called when the
\* identifier is invalid, when FetchDraftContent returned an error or
\* (nil, nil), in particular not when the content upstream answered 404
\* (not found) or was unreachable (upstream unavailable); a request ends in
\* exactly one terminal outcome.
C7_SequentialShortCircuit ==
    /\ upCalls \in {<<>>, <<"draft">>, <<"draft", "suggestions">>}
    /\ (hpc # "idle" /\ ValidateUUID(req.id) # Nil)
          => (upCalls = <<>> /\ outcome = "bad_request")
    /\ Len(upCalls) = 2 => (fetched.err = Nil /\ ~fetched.content.isNil)
    /\ (upResp.draft.kind = "response" /\ upResp.draft.status = StatusNotFound)
          => (upCalls = <<"draft">> /\ outcome = "not_found")
    /\ upResp.draft.kind = "error"
          => (upCalls = <<"draft">> /\ outcome = "upstream_unavailable")
    /\ IF hpc = "done" THEN outcomes = 1 /\ outcome \in Terminal
       ELSE outcomes = 0 /\ outcome = "none"

C7_Witness ==
    /\ hpc = "done"
    /\ upResp.draft.kind = "response" /\ upResp.draft.status = StatusNotFound
    /\ upCalls = <<"draft">> /\ outcome = "not_found" /\ outcomes = 1

\* C8: after every poll the aggregate verdict is healthy if and only if
\* every dependency's IsGTG of that poll returned no error, and unhealthy
\* if and only if at least one returned an error, a timed-out probe
\* counting as an error, whatever the verdict of the poll before.
C8_HealthyIffAllGTG ==
    ppc = "joined" =>
        /\ verdict.now = "healthy" <=> \A d \in Deps : probe[d].err = Nil
        /\ verdict.now = "unhealthy" <=> \E d \in Deps : probe[d].err # Nil

\* one probe timed out and the other succeeded, after a healthy poll
C8_Witness ==
    /\ ppc = "joined"
    /\ verdict = [now |-> "unhealthy", prev |-> "healthy"]
    /\ \E d \in Deps : probe[d].err = "timeout"
    /\ \E d \in Deps : probe[d].err = Nil

\* C9: the response WriteJSONMessage produces carries Content-Type:
\* application/json together with the given status and the JSON-encoded
\* message.
C9_JSONContentTypeSent ==
    (wjm.called /\ wjm.err = Nil) =>
        /\ rw.status = wjm.status
        /\ rw.body = EncodeMessage(wjm.msg)
        /\ \E i \in 1..Len(rw.sentHeader[ContentType]) :
              rw.sentHeader[ContentType][i] = "application/json"

\* C10: when main has returned after a signal, server.Close has been
\* called, the ListenAndServe goroutine has returned and serveEndpoints has
\* passed wg.Wait.
C10_GracefulShutdown ==
    (exited = "returned" /\ servePc # "none")
        => (serverClosed /\ listenPc = "done" /\ servePc = "done")

====
